---- MODULE Spec2Model ----
(***************************************************************************)
(* Path-to-resource compiler of lightkube-generate (compile_resources.py): *)
(* extract -> aggregate -> compile_one -> get_classes, as run by           *)
(* compile_resources.                                                      *)
(*                                                                         *)
(* Conventions.                                                            *)
(*  - A Python value that may be None is a sequence: <<>> is None and      *)
(*    <<x>> is the value x.                                                *)
(*  - A path string "/a/b/c" is the sequence of its segments               *)
(*    <<"a","b","c">>; a trailing slash is a last segment "".  A regex     *)
(*    capture that starts with "/" is kept as its segments too.            *)
(*  - A dict is a sequence of <<key, value>> pairs in insertion order.     *)
(***************************************************************************)
EXTENDS Naturals, Sequences, FiniteSets, TLC

VARIABLES
    doc,        \* sw["paths"]: the path entries, in the order of the file
    pc,         \* "extract", "compile", "classes", "done" or "error"
    err,        \* the exception that ended the run, "" when none
    i,          \* extract: index of the next path entry
    printed,    \* the paths extract printed (no identity found)
    resources,  \* aggregate's dict: <<ApiKey, list of SpecPath>> pairs
    k,          \* compile_resources: index of the next bucket
    returned,   \* what compile_one returned for each bucket so far
    modules,    \* compile_resources: <<module, list of Compiled>> pairs
    m,          \* compile_resources: index of the module being rendered
    c,          \* index of the next Compiled of that module
    classes,    \* the classes collected for that module so far
    imports,    \* the model imports collected for that module so far
    results,    \* compile_resources' result: <<module, classes>> pairs
    files,      \* the rendered modules: <<module, sorted imports>> pairs
    run,        \* 1 in the first run over the document, 2 in the second
    first       \* the outcome of the first run, once it has ended

vars == <<doc, pc, err, i, printed, resources, k, returned, modules, m, c,
          classes, imports, results, files, run, first>>

\* Longest document (number of path entries) explored.
MaxPaths == 3

None == <<>>
Some(x) == <<x>>
Val(o) == o[1]

Range(s) == {s[n] : n \in DOMAIN s}

\* Python truthiness of an optional string: None and "" are falsy.
TruthyStr(o) == o /= None /\ Val(o) /= ""

(***************************************************************************)
(* Path grammar (RE_PATH, re.match: anchored at the start only).           *)
(***************************************************************************)

\* Segments of the explored paths that begin with "v" (v[^/]*).
VersionSegs == {"v1", "v2", "version"}

IsVersion(s) == s \in VersionSegs

\* (?P<watch>/watch)?(?P<ns>/namespaces/{namespace})?/(?P<plural>[^/]*)
\* from segment j on.  Both optional groups are greedy: taken first, given
\* up when no plural segment is left.  p is the plural's index.
TailMatch(segs, j) ==
    LET n == Len(segs)
        W(q) == q <= n /\ segs[q] = "watch"
        N(q) == q + 1 <= n /\ segs[q] = "namespaces" /\ segs[q + 1] = "{namespace}"
    IN  IF W(j) /\ N(j + 1) /\ j + 3 <= n
          THEN [ok |-> TRUE, watch |-> Some(<<"watch">>),
                ns |-> Some(<<"namespaces", "{namespace}">>), p |-> j + 3]
        ELSE IF W(j) /\ j + 1 <= n
          THEN [ok |-> TRUE, watch |-> Some(<<"watch">>), ns |-> None, p |-> j + 1]
        ELSE IF N(j) /\ j + 2 <= n
          THEN [ok |-> TRUE, watch |-> None,
                ns |-> Some(<<"namespaces", "{namespace}">>), p |-> j + 2]
        ELSE IF j <= n
          THEN [ok |-> TRUE, watch |-> None, ns |-> None, p |-> j]
        ELSE [ok |-> FALSE, watch |-> None, ns |-> None, p |-> 0]

\* A split of the path after /api or /apis into g group segments, a version
\* segment and a matching tail.
SplitOk(segs, g) ==
    /\ 2 + g <= Len(segs)
    /\ IsVersion(segs[2 + g])
    /\ TailMatch(segs, 3 + g).ok

\* (?P<group>/.*?)? : the optional group is tried first and is lazy, so the
\* shortest non-empty group wins; no group (0) only when none works.
GroupLens(segs) ==
    LET ks == {g \in 1..Len(segs) : SplitOk(segs, g)}
    IN  IF ks /= {} THEN {CHOOSE g \in ks : \A h \in ks : g <= h}
        ELSE IF SplitOk(segs, 0) THEN {0}
        ELSE {}

\* RE_PATH.match(path).groupdict(), or None.
RE_PATH(segs) ==
    IF Len(segs) = 0 \/ segs[1] \notin {"api", "apis"} \/ GroupLens(segs) = {}
    THEN None
    ELSE LET g == CHOOSE x \in GroupLens(segs) : TRUE
             t == TailMatch(segs, 3 + g)
             p == t.p
         IN  Some([group   |-> IF g = 0 THEN None
                               ELSE Some(SubSeq(segs, 2, 1 + g)),
                   version |-> segs[2 + g],
                   watch   |-> t.watch,
                   ns      |-> t.ns,
                   plural  |-> segs[p],
                   action  |-> IF p + 2 <= Len(segs) /\ segs[p + 1] = "{name}"
                               THEN Some(<<segs[p + 2]>>)
                               ELSE None])

RECURSIVE Join(_)
\* "/".join(segs)
Join(segs) ==
    IF segs = <<>> THEN ""
    ELSE IF Len(segs) = 1 THEN segs[1]
    ELSE segs[1] \o "/" \o Join(Tail(segs))

RECURSIVE LStrip(_)
\* capture.lstrip("/") for a capture "/s1/s2...": every leading slash goes,
\* so leading empty segments go with it.
LStrip(segs) ==
    IF segs = <<>> THEN ""
    ELSE IF segs[1] = "" THEN LStrip(Tail(segs))
    ELSE Join(segs)

(***************************************************************************)
(* Named tuples of the program.                                            *)
(***************************************************************************)

ApiKey(group, version, plural) ==
    [group |-> group, version |-> version, plural |-> plural]

Resource(group, version, kind) ==
    [group |-> group, version |-> version, kind |-> kind]

\* Resource.definition(): f"res.ResourceDef{tuple(self)}".
definition(res) == <<"res.ResourceDef", res.group, res.version, res.kind>>

\* repr() of a str.
repr(s) == "'" \o s \o "'"

Schema(name, module) == [name |-> name, module |-> module]

\* Schema.full_name(): "module.name", or None for a falsy module.
full_name(schema) ==
    IF TruthyStr(schema.module)
    THEN Some(Val(schema.module) \o "." \o schema.name)
    ELSE None

\* schema_name(ref) for a reference given as its dot-separated parts: RE_MODEL
\* removes everything up to the last inner part api, apis or pkg; the rest
\* (at most 3 parts) gives the module (group_version, or the first part) and
\* the model (the last part).
schema_name(dotted) ==
    LET marks == {n \in 2..(Len(dotted) - 1) : dotted[n] \in {"api", "apis", "pkg"}}
        from  == IF marks = {} THEN 1
                 ELSE 1 + (CHOOSE n \in marks : \A h \in marks : h <= n)
        parts == SubSeq(dotted, from, Len(dotted))
    IN  Schema(parts[Len(parts)],
               Some(IF Len(parts) = 3 THEN parts[1] \o "_" \o parts[2]
                    ELSE parts[1]))

\* to_snake_case(tag) on the documentation tags of the explored documents: an
\* underscore goes before every capital that is not the first character, then
\* lower().
to_snake_case(s) ==
    CASE s = "Pod"     -> "pod"
      [] s = "core_v1" -> "core_v1"
      [] s = "AppsV1"  -> "apps_v1"
      [] OTHER         -> s

\* str.capitalize() on the sub-action names of the explored paths: the first
\* character upper-cased, the rest lower-cased.
capitalize(s) ==
    CASE s = "status" -> "Status"
      [] s = "proxy"  -> "Proxy"
      [] OTHER        -> s

\* Python's order of str on the action names, ascending.
ActionOrder ==
    <<"connect", "delete", "get", "global_connect", "global_delete",
      "global_get", "global_list", "global_post", "global_put", "global_watch",
      "list", "post", "put", "watch">>

LexRank(a) == CHOOSE n \in DOMAIN ActionOrder : ActionOrder[n] = a

RECURSIVE sorted_Descending(_)
\* Mutant of sorted: the order is reversed.
sorted_Descending(S) ==
    IF S = {} THEN <<>>
    ELSE LET hi == CHOOSE a \in S : \A b \in S : LexRank(b) <= LexRank(a)
         IN  <<hi>> \o sorted_Descending(S \ {hi})

RECURSIVE sorted(_)
\* sorted(S) of a set of action names.
sorted(S) ==
    IF S = {} THEN <<>>
    ELSE LET lo == CHOOSE a \in S : \A b \in S : LexRank(a) <= LexRank(b)
         IN  <<lo>> \o sorted(S \ {lo})

\* usorted(l): sorted(set(l)).
usorted(l) == sorted(Range(l))

(***************************************************************************)
(* The specification documents explored (json.load(f)).                    *)
(***************************************************************************)

\* sw["parameters"]: the shared parameter definitions.
SharedParameters ==
    [key \in {"watch-XFNkK", "pretty-tJGM1-ng"} |->
        IF key = "watch-XFNkK" THEN [name |-> "watch"] ELSE [name |-> "pretty"]]

\* A parameter entry: inline, or a {"$ref": "#/parameters/<key>"}.
Inline(name) == [ref |-> None, name |-> name]
Ref(key) == [ref |-> Some(<<"#", "parameters", key>>), name |-> ""]

\* A 200-response schema: a {"$ref": ...} or a {"type": ...}.
SchemaRef(dotted) == [ref |-> Some(dotted), type |-> ""]
SchemaType(type) == [ref |-> None, type |-> type]

SPod     == SchemaRef(<<"#/definitions/io", "k8s", "api", "core", "v1", "Pod">>)
SPodList == SchemaRef(<<"#/definitions/io", "k8s", "api", "core", "v1", "PodList">>)
SStatus  == SchemaRef(<<"#/definitions/io", "k8s", "apimachinery", "pkg", "apis",
                        "meta", "v1", "Status">>)
SString  == SchemaType("string")

\* One HTTP-method entry of a path: x-kubernetes-action (action),
\* x-kubernetes-group-version-kind (gvk), tags, its own parameter list
\* (None when the key is missing) and the schema of its 200 response.
Method(method, action, gvk, tags, parameters, schema) ==
    [method |-> method, action |-> action, gvk |-> gvk, tags |-> tags,
     parameters |-> parameters, schema |-> schema]

\* The path's shared "parameters" block.
Parameters(parameters) ==
    [method |-> "parameters", action |-> None, gvk |-> None, tags |-> {},
     parameters |-> Some(parameters), schema |-> SString]

GvkPod   == Some(Resource("", "v1", "Pod"))
GvkOther == Some(Resource("", "v1", "PodTemplate"))

\* get -> list and post, identity Pod, tag Pod.
DListPost ==
    <<Method("get", Some("list"), GvkPod, {"Pod"}, None, SPodList),
      Method("post", None, GvkPod, {"Pod"}, None, SPod)>>

\* get -> list, identity Pod, no tags.
DListNoTag == <<Method("get", Some("list"), GvkPod, {}, None, SPodList)>>

\* get -> list, identity Pod, tag Pod.
DList == <<Method("get", Some("list"), GvkPod, {"Pod"}, None, SPodList)>>

\* verbs get and list on one path.
DGetList ==
    <<Method("get", None, GvkPod, {"Pod"}, Some(<<Inline("pretty")>>), SPod),
      Method("post", Some("list"), GvkPod, {"Pod"}, None, SPodList)>>

\* the item endpoint: get, put, delete (whose 200 response is a Status).
DItem ==
    <<Method("get", None, GvkPod, {"Pod"}, None, SPod),
      Method("put", None, GvkPod, {"Pod"}, None, SPod),
      Method("delete", None, GvkPod, {"Pod"}, None, SStatus)>>

\* get and put that carry an identity.
DGetPut ==
    <<Method("get", None, GvkPod, {"Pod"}, None, SPod),
      Method("put", None, GvkPod, {"Pod"}, None, SPod)>>

\* get and put without any group/version/kind triple.
DGetPutNoId ==
    <<Method("get", None, None, {"Pod"}, None, SPod),
      Method("put", None, None, {"Pod"}, None, SPod)>>

\* get -> list with a referenced watch parameter, another identity, two tags,
\* and a shared block with two more watch parameters.
DWatchy ==
    <<Method("get", Some("list"), GvkOther, {"core_v1", "AppsV1"},
             Some(<<Inline("pretty"), Ref("watch-XFNkK"), Inline("watch")>>), SPodList),
      Parameters(<<Inline("watch"), Ref("pretty-tJGM1-ng"), Ref("watch-XFNkK")>>)>>

\* only an unsupported action.
DConnect == <<Method("get", Some("connect"), GvkPod, {"Pod"}, None, SString)>>

\* get, and post with the unsupported action.
DGetConnect ==
    <<Method("get", None, GvkPod, {"Pod"}, None, SPod),
      Method("post", Some("connect"), GvkPod, {"Pod"}, None, SString)>>

\* get -> list whose only parameters are references, one of them to the
\* shared watch parameter.
DRefWatch ==
    <<Method("get", Some("list"), GvkPod, {"Pod"},
             Some(<<Ref("pretty-tJGM1-ng"), Ref("watch-XFNkK")>>), SPodList),
      Method("post", None, GvkPod, {"Pod"}, None, SPod)>>

\* get and a shared block whose only watch parameter is a reference.
DSharedRef ==
    <<Method("get", None, GvkPod, {"Pod"}, None, SPod),
      Parameters(<<Ref("watch-XFNkK")>>)>>

\* get with parameters, inline and referenced, none of them named watch.
DPretty ==
    <<Method("get", None, GvkPod, {"Pod"},
             Some(<<Inline("pretty"), Ref("pretty-tJGM1-ng")>>), SPod),
      Parameters(<<Ref("pretty-tJGM1-ng")>>)>>

\* get on another identity, documented under another tag, answering a Status.
DApps == <<Method("get", None, GvkOther, {"AppsV1"}, None, SStatus)>>

\* get -> watch without any parameter.
DActionWatch == <<Method("get", Some("watch"), GvkPod, {"Pod"}, None, SPod)>>

\* delete only: no get or post shape.
DDelete == <<Method("delete", None, GvkPod, {"core_v1"}, None, SStatus)>>

PNsPods    == <<"api", "v1", "namespaces", "{namespace}", "pods">>
PPods      == <<"api", "v1", "pods">>
PNsPod     == <<"api", "v1", "namespaces", "{namespace}", "pods", "{name}">>
PNsStatus  == <<"api", "v1", "namespaces", "{namespace}", "pods", "{name}", "status">>
PNsEmpty   == <<"api", "v1", "namespaces", "{namespace}", "pods", "{name}", "">>
PNsProxy   == <<"api", "v1", "namespaces", "{namespace}", "pods", "{name}", "proxy">>
PNsProxyP  == <<"api", "v1", "namespaces", "{namespace}", "pods", "{name}", "proxy",
                "{path}">>
PWatchPods == <<"api", "v1", "watch", "pods">>
PWatchNs   == <<"api", "v1", "watch", "namespaces", "{namespace}", "pods", "{name}">>
PDeploys   == <<"apis", "apps", "v1", "deployments">>
PDeployStat == <<"apis", "apps", "v1", "deployments", "{name}", "status">>
PServices  == <<"api", "v1", "services">>
PVersion   == <<"version", "">>
PNoPlural  == <<"api", "v1", "">>

Entry(path, defi) == [path |-> path, defi |-> defi]

\* The path entries a document of several paths is made of.
Entries ==
    {Entry(PNsPods, DListPost), Entry(PNsPods, DGetList), Entry(PNsPods, DWatchy),
     Entry(PNsPods, DGetPutNoId), Entry(PNsPods, DDelete),
     Entry(PPods, DListNoTag), Entry(PPods, DList), Entry(PPods, DWatchy),
     Entry(PPods, DListPost),
     Entry(PNsPod, DItem),
     Entry(PNsStatus, DGetPut), Entry(PNsStatus, DGetPutNoId),
     Entry(PNsEmpty, DGetPut),
     Entry(PNsProxy, DGetPut), Entry(PNsProxyP, DGetPut),
     Entry(PWatchPods, DListPost),
     Entry(PDeploys, DListPost), Entry(PDeploys, DWatchy), Entry(PDeployStat, DGetPut),
     Entry(PDeploys, DApps), Entry(PServices, DListPost)}

AllPaths ==
    {PNsPods, PPods, PNsPod, PNsStatus, PNsEmpty, PNsProxy, PNsProxyP, PWatchPods,
     PWatchNs, PDeploys, PDeployStat, PServices, PVersion, PNoPlural}

AllDefis ==
    {DListPost, DListNoTag, DList, DGetList, DItem, DGetPut, DGetPutNoId, DWatchy,
     DConnect, DDelete, DGetConnect, DRefWatch, DSharedRef, DPretty, DActionWatch,
     DApps}

\* Documents: the keys of sw["paths"] are distinct, in the order of the file.
\* A document of one path takes any path with any definitions.
Docs ==
    {<<Entry(p, d)>> : p \in AllPaths, d \in AllDefis}
    \cup UNION {{d \in [1..n -> Entries] :
                    \A a, b \in 1..n : a /= b => d[a].path /= d[b].path}
                : n \in 2..MaxPaths}

(***************************************************************************)
(* extract and aggregate.                                                  *)
(***************************************************************************)

\* Mutant of iter_parameters: a reference is not looked up.
iter_parameters_Unresolved(parameters) ==
    [n \in DOMAIN parameters |-> [name |-> parameters[n].name]]

\* iter_parameters(parameters, sw): a {"$ref": ...} entry is looked up in
\* sw["parameters"] under the last part of the reference.
iter_parameters(parameters) ==
    [n \in DOMAIN parameters |->
        IF parameters[n].ref /= None
        THEN SharedParameters[Val(parameters[n].ref)[Len(Val(parameters[n].ref))]]
        ELSE [name |-> parameters[n].name]]

IsWatch(parameter) == parameter.name = "watch"

\* Mutant of AppendAction: connect is kept like any other action.
AppendAction_KeepConnect(methods, action) == Append(methods, action)

\* "if action != 'connect': methods.append(action)"
AppendAction(methods, action) ==
    IF action /= "connect" THEN Append(methods, action) ELSE methods

\* One turn of "for method, mdef in defi.items()" on the running
\* methods, resource, model_schema and tags.
ExtractItem(item, acc) ==
    IF item.method /= "parameters"
    THEN LET action == IF item.action /= None THEN Val(item.action) ELSE item.method
             kept   == AppendAction(acc.methods, action)
             own    == IF item.parameters = None THEN <<>>
                       ELSE iter_parameters(Val(item.parameters))
         IN  [methods      |-> IF \E n \in DOMAIN own : IsWatch(own[n])
                               THEN Append(kept, "watch") ELSE kept,
              resource     |-> IF acc.resource = None THEN item.gvk ELSE acc.resource,
              model_schema |-> IF item.schema.ref /= None
                               THEN Some(schema_name(Val(item.schema.ref)))
                               ELSE Some(Schema(item.schema.type, None)),
              tags         |-> acc.tags \cup item.tags]
    ELSE LET shared == SelectSeq(iter_parameters(Val(item.parameters)), IsWatch)
         IN  [acc EXCEPT !.methods = acc.methods \o [n \in DOMAIN shared |-> "watch"]]

RECURSIVE ExtractItems(_, _)
ExtractItems(items, acc) ==
    IF items = <<>> THEN acc
    ELSE ExtractItems(Tail(items), ExtractItem(Head(items), acc))

\* methods, resource, model_schema and tags after the loop over the path's
\* definitions.
ExtractDefi(defi) ==
    ExtractItems(defi, [methods |-> <<>>, resource |-> None, model_schema |-> None,
                        tags |-> {}])

\* Mutant of WatchDiscarded: watch paths are read like the others.
WatchDiscarded_Never(path_match) == FALSE

\* "if path_match["watch"]: continue"
WatchDiscarded(path_match) == path_match.watch /= None

\* key = ApiKey((group or "").lstrip("/"), version, plural)
KeyOf(path_match) ==
    ApiKey(IF path_match.group = None THEN "" ELSE LStrip(Val(path_match.group)),
           path_match.version, path_match.plural)

\* The path is left out before its definitions are read: no match, a watch
\* segment, or an empty plural.
Discarded(path) ==
    IF RE_PATH(path) = None THEN TRUE
    ELSE IF WatchDiscarded(Val(RE_PATH(path))) THEN TRUE
    ELSE KeyOf(Val(RE_PATH(path))).plural = ""

\* sub_action = path_match["action"].lstrip("/") if path_match["action"] else None
SubActionOf(path_match) ==
    IF path_match.action /= None THEN Some(LStrip(Val(path_match.action))) ELSE None

\* The SpecPath yielded for a path, with tag the element tags.pop() returned.
SpecPath(path, acc, tag) ==
    LET path_match == Val(RE_PATH(path))
    IN  [path         |-> path,
         group_key    |-> KeyOf(path_match),
         resource     |-> acc.resource,
         methods      |-> acc.methods,
         module       |-> Some(to_snake_case(tag)),
         model_schema |-> acc.model_schema,
         namespaced   |-> path_match.ns /= None,
         sub_action   |-> SubActionOf(path_match)]

\* aggregate: resources[ele.group_key].append(ele) on a defaultdict(list).
Aggregate(res, ele) ==
    IF \E n \in DOMAIN res : res[n][1] = ele.group_key
    THEN [n \in DOMAIN res |->
            IF res[n][1] = ele.group_key THEN <<res[n][1], Append(res[n][2], ele)>>
            ELSE res[n]]
    ELSE Append(res, <<ele.group_key, <<ele>>>>)

(***************************************************************************)
(* compile_one.                                                            *)
(***************************************************************************)

\* SpecPath.to_subaction()
to_subaction(ele) ==
    [name         |-> Val(ele.sub_action),
     actions      |-> usorted(ele.methods),
     resource     |-> ele.resource,
     model_schema |-> ele.model_schema]

\* Mutant of ScanResource: the identity of a sub-action record is taken too.
ScanResource_AnyRecord(ele, resource) ==
    IF ele.resource /= None THEN ele.resource ELSE resource

\* "if ele.resource and ele.sub_action is None: resource = ele.resource"
ScanResource(ele, resource) ==
    IF ele.resource /= None /\ ele.sub_action = None THEN ele.resource ELSE resource

\* Mutant of ScanNamespaced: only records without a sub-action count.
ScanNamespaced_PrimaryOnly(ele, namespaced) ==
    namespaced \/ (ele.namespaced /\ ele.sub_action = None)

\* "if ele.namespaced: namespaced = True"
ScanNamespaced(ele, namespaced) == namespaced \/ ele.namespaced

\* One turn of the first loop of compile_one.
ScanStep(ele, acc) ==
    [namespaced   |-> ScanNamespaced(ele, acc.namespaced),
     resource     |-> ScanResource(ele, acc.resource),
     module       |-> IF ~TruthyStr(acc.module) /\ TruthyStr(ele.module)
                      THEN ele.module ELSE acc.module,
     model_schema |-> IF /\ acc.model_schema = None
                         /\ ele.sub_action = None
                         /\ ("get" \in Range(ele.methods) \/ "post" \in Range(ele.methods))
                      THEN ele.model_schema ELSE acc.model_schema]

RECURSIVE Scan(_, _)
Scan(elements, acc) ==
    IF elements = <<>> THEN acc
    ELSE Scan(Tail(elements), ScanStep(Head(elements), acc))

\* "if ele.sub_action:" : the record goes to the sub-actions.
IsSubAction(ele) == TruthyStr(ele.sub_action)

\* Mutant of PrimaryVerbs: the verbs of a cluster-scoped record are always
\* prefixed.
PrimaryVerbs_AlwaysGlobal(ele, namespaced) ==
    IF ~ele.namespaced
    THEN {"global_" \o v : v \in Range(ele.methods)}
    ELSE Range(ele.methods)

\* The verbs a record without a sub-action adds to the primary actions.
PrimaryVerbs(ele, namespaced) ==
    IF namespaced /\ ~ele.namespaced
    THEN {"global_" \o v : v \in Range(ele.methods)}
    ELSE Range(ele.methods)

\* One turn of the second loop of compile_one.
SplitStep(ele, namespaced, acc) ==
    IF IsSubAction(ele)
    THEN [acc EXCEPT !.sub_actions = Append(acc.sub_actions, to_subaction(ele))]
    ELSE [acc EXCEPT !.actions = acc.actions \cup PrimaryVerbs(ele, namespaced)]

RECURSIVE Split(_, _, _)
Split(elements, namespaced, acc) ==
    IF elements = <<>> THEN acc
    ELSE Split(Tail(elements), namespaced, SplitStep(Head(elements), namespaced, acc))

\* The action list of the Compiled: usorted(actions).
CompiledActions(actions) == sorted(actions)

\* compile_one(key, elements): the Compiled, or None.
compile_one(key, elements) ==
    LET scan  == Scan(elements, [namespaced |-> FALSE, module |-> None,
                                 resource |-> None, model_schema |-> None])
        split == Split(elements, scan.namespaced, [sub_actions |-> <<>>, actions |-> {}])
    IN  IF scan.resource = None THEN None
        ELSE Some([resource     |-> Val(scan.resource),
                   plural       |-> key.plural,
                   module       |-> scan.module,
                   model_schema |-> scan.model_schema,
                   namespaced   |-> scan.namespaced,
                   actions      |-> CompiledActions(split.actions),
                   sub_actions  |-> split.sub_actions])

\* Mutant of ModulesAppend: the Compiled goes to the front of its module's
\* list, a new module to the front of the modules.
ModulesAppend_Front(mods, compiled) ==
    IF \E n \in DOMAIN mods : mods[n][1] = compiled.module
    THEN [n \in DOMAIN mods |->
            IF mods[n][1] = compiled.module
            THEN <<mods[n][1], <<compiled>> \o mods[n][2]>>
            ELSE mods[n]]
    ELSE <<<<compiled.module, <<compiled>>>>>> \o mods

\* modules[c.module].append(c) on a defaultdict(list).
ModulesAppend(mods, compiled) ==
    IF \E n \in DOMAIN mods : mods[n][1] = compiled.module
    THEN [n \in DOMAIN mods |->
            IF mods[n][1] = compiled.module
            THEN <<mods[n][1], Append(mods[n][2], compiled)>>
            ELSE mods[n]]
    ELSE Append(mods, <<compiled.module, <<compiled>>>>)

(***************************************************************************)
(* get_classes.                                                            *)
(***************************************************************************)

\* transform_classes([class_, full_name]): None is dropped, a dotted name
\* gets the prefix m_ (a full name is dotted, a base class is not).
transform_classes(class_, full) ==
    IF full = None THEN <<class_>> ELSE <<class_, "m_" \o Val(full)>>

\* d[key] = value on a dict.
DictSet(d, key, value) ==
    IF \E n \in DOMAIN d : d[n][1] = key
    THEN [n \in DOMAIN d |-> IF d[n][1] = key THEN <<key, value>> ELSE d[n]]
    ELSE Append(d, <<key, value>>)

\* The base class of the sub-resource classes.
SubResourceClass(compiled) ==
    IF compiled.namespaced THEN "NamespacedSubResource" ELSE "GlobalSubResource"

\* The Class yielded for one SubAction.
SubClass(compiled, suba) ==
    [name         |-> compiled.resource.kind \o capitalize(suba.name),
     properties   |-> [resource |-> definition(Val(suba.resource)),
                       parent   |-> Some(definition(compiled.resource)),
                       plural   |-> repr(compiled.plural),
                       verbs    |-> suba.actions,
                       action   |-> Some(repr(suba.name))],
     actions      |-> <<>>,
     classes      |-> transform_classes(SubResourceClass(compiled),
                                        full_name(Val(suba.model_schema))),
     model_import |-> Val(suba.model_schema).module]

\* The base class of the primary class.
PrimaryClass(compiled) ==
    IF "global_list" \in Range(compiled.actions) THEN "NamespacedResourceG"
    ELSE IF compiled.namespaced THEN "NamespacedResource"
    ELSE "GlobalResource"

\* The Class yielded for the resource itself; actions is the table of its
\* sub-resource classes.
MainClass(compiled, actions) ==
    [name         |-> compiled.resource.kind,
     properties   |-> [resource |-> definition(compiled.resource),
                       parent   |-> None,
                       plural   |-> repr(compiled.plural),
                       verbs    |-> compiled.actions,
                       action   |-> None],
     actions      |-> actions,
     classes      |-> transform_classes(PrimaryClass(compiled),
                                        full_name(Val(compiled.model_schema))),
     model_import |-> IF TruthyStr(Val(compiled.model_schema).module)
                      THEN Val(compiled.model_schema).module ELSE None]

\* sres.definition() and suba.model_schema.full_name() raise AttributeError
\* on None.
SubRaises(suba) == suba.resource = None \/ suba.model_schema = None

RECURSIVE SubClasses(_, _, _)
\* The loop over compiled.sub_actions: the classes yielded so far, the table
\* of sub-resource classes, and whether an exception ended the loop.
SubClasses(compiled, subs, acc) ==
    IF subs = <<>> THEN acc
    ELSE IF SubRaises(Head(subs)) THEN [acc EXCEPT !.raised = TRUE]
    ELSE SubClasses(compiled, Tail(subs),
            [out     |-> Append(acc.out, SubClass(compiled, Head(subs))),
             actions |-> DictSet(acc.actions, capitalize(Head(subs).name),
                                 compiled.resource.kind \o capitalize(Head(subs).name)),
             raised  |-> FALSE])

\* get_classes(compiled): the classes the generator yields, and whether it
\* ends by raising (compiled.model_schema.full_name() raises on None).
get_classes(compiled) ==
    LET subs == SubClasses(compiled, compiled.sub_actions,
                           [out |-> <<>>, actions |-> <<>>, raised |-> FALSE])
    IN  IF subs.raised THEN [out |-> subs.out, raised |-> TRUE]
        ELSE IF compiled.model_schema = None THEN [out |-> subs.out, raised |-> TRUE]
        ELSE [out |-> Append(subs.out, MainClass(compiled, subs.actions)),
              raised |-> FALSE]

(***************************************************************************)
(* The run: execute() = compile_resources(aggregate(extract(specs)), ...). *)
(***************************************************************************)

\* Python's order of str on the schema modules, ascending.
ModuleOrder == <<"core_v1", "meta_v1">>

RECURSIVE sorted_imports(_)
\* [f"{t} as m_{t}" for t in sorted(imports)]
sorted_imports(S) ==
    IF S = {} THEN <<>>
    ELSE LET lo == CHOOSE a \in S : \A b \in S :
                     (CHOOSE n \in DOMAIN ModuleOrder : ModuleOrder[n] = a)
                       <= (CHOOSE n \in DOMAIN ModuleOrder : ModuleOrder[n] = b)
         IN  <<lo \o " as m_" \o lo>> \o sorted_imports(S \ {lo})

Start ==
    /\ pc = "extract"
    /\ err = ""
    /\ i = 1
    /\ printed = <<>>
    /\ resources = <<>>
    /\ k = 1
    /\ returned = <<>>
    /\ modules = <<>>
    /\ m = 1
    /\ c = 1
    /\ classes = <<>>
    /\ imports = {}
    /\ results = <<>>
    /\ files = <<>>

Init ==
    /\ doc \in Docs
    /\ run = 1
    /\ first = <<>>
    /\ Start

\* Where the run goes once path entry i is done: aggregate has consumed the
\* whole generator before compile_resources starts; with no bucket there is
\* no module and the run ends.
AfterPath(res) ==
    IF i < Len(doc) THEN "extract"
    ELSE IF res = <<>> THEN "done"
    ELSE "compile"

Compiling == <<k, returned, modules, m, c, classes, imports, results, files>>

\* extract: the path is skipped before its definitions are read.
ExtractSkip ==
    /\ pc = "extract"
    /\ Discarded(doc[i].path)
    /\ i' = i + 1
    /\ pc' = AfterPath(resources)
    /\ UNCHANGED <<doc, err, printed, resources, run, first>>
    /\ UNCHANGED Compiling

\* print(path) when no method carried an identity.
Printed(path, acc) ==
    IF acc.resource = None THEN Append(printed, path) ELSE printed

\* extract: the path has no verb left ("if methods:" fails), nothing is
\* yielded.
ExtractDrop ==
    /\ pc = "extract"
    /\ ~Discarded(doc[i].path)
    /\ LET acc == ExtractDefi(doc[i].defi)
       IN  /\ acc.methods = <<>>
           /\ printed' = Printed(doc[i].path, acc)
    /\ i' = i + 1
    /\ pc' = AfterPath(resources)
    /\ UNCHANGED <<doc, err, resources, run, first>>
    /\ UNCHANGED Compiling

\* extract yields a SpecPath and aggregate files it.  tags.pop() takes an
\* arbitrary element of a set of str, whose order follows the process's hash
\* seed.
ExtractYield ==
    /\ pc = "extract"
    /\ ~Discarded(doc[i].path)
    /\ LET acc == ExtractDefi(doc[i].defi)
       IN  /\ acc.methods /= <<>>
           /\ printed' = Printed(doc[i].path, acc)
           /\ \E tag \in acc.tags :
                /\ resources' = Aggregate(resources, SpecPath(doc[i].path, acc, tag))
                /\ pc' = AfterPath(resources')
    /\ i' = i + 1
    /\ UNCHANGED <<doc, err, run, first>>
    /\ UNCHANGED Compiling

\* extract: tags.pop() on an empty set raises KeyError.
ExtractFail ==
    /\ pc = "extract"
    /\ ~Discarded(doc[i].path)
    /\ LET acc == ExtractDefi(doc[i].defi)
       IN  /\ acc.methods /= <<>>
           /\ acc.tags = {}
           /\ printed' = Printed(doc[i].path, acc)
    /\ pc' = "error"
    /\ err' = "KeyError"
    /\ UNCHANGED <<doc, i, resources, run, first>>
    /\ UNCHANGED Compiling

\* The modules after compile_one on one bucket: "if c: modules[c.module].append(c)".
Compiled(mods, bucket) ==
    IF compile_one(bucket[1], bucket[2]) = None THEN mods
    ELSE ModulesAppend(mods, Val(compile_one(bucket[1], bucket[2])))

\* compile_resources: one turn of the loop over apikey_to_paths.
CompileBucket ==
    /\ pc = "compile"
    /\ returned' = Append(returned, compile_one(resources[k][1], resources[k][2]))
    /\ modules' = Compiled(modules, resources[k])
    /\ k' = k + 1
    /\ pc' = IF k < Len(resources) THEN "compile"
             ELSE IF modules' = <<>> THEN "done"
             ELSE "classes"
    /\ UNCHANGED <<doc, err, i, printed, resources, m, c, classes, imports,
                   results, files, run, first>>

\* The model imports of the classes yielded: "if cls.model_import: imports.add".
ImportsOf(out) ==
    {Val(out[n].model_import) : n \in {x \in DOMAIN out : TruthyStr(out[x].model_import)}}

\* compile_resources: get_classes on the next Compiled of module m; after the
\* last one the module is rendered and results[module] is set.
GetClasses ==
    /\ pc = "classes"
    /\ LET got == get_classes(modules[m][2][c])
           all == classes \o got.out
           imp == imports \cup ImportsOf(got.out)
       IN  /\ ~got.raised
           /\ IF c < Len(modules[m][2])
              THEN /\ c' = c + 1
                   /\ classes' = all
                   /\ imports' = imp
                   /\ UNCHANGED <<m, results, files, pc>>
              ELSE /\ results' = Append(results, <<modules[m][1], all>>)
                   /\ files' = Append(files, <<modules[m][1], sorted_imports(imp)>>)
                   /\ m' = m + 1
                   /\ c' = 1
                   /\ classes' = <<>>
                   /\ imports' = {}
                   /\ pc' = IF m < Len(modules) THEN "classes" ELSE "done"
    /\ UNCHANGED <<doc, err, i, printed, resources, k, returned, modules, run, first>>

\* compile_resources: get_classes raises; the classes it yielded before are
\* in the list, nothing is returned.
GetClassesFail ==
    /\ pc = "classes"
    /\ LET got == get_classes(modules[m][2][c])
       IN  /\ got.raised
           /\ classes' = classes \o got.out
           /\ imports' = imports \cup ImportsOf(got.out)
    /\ pc' = "error"
    /\ err' = "AttributeError"
    /\ UNCHANGED <<doc, i, printed, resources, k, returned, modules, m, c, results,
                   files, run, first>>

\* What a run leaves behind.
Outcome == [pc |-> pc, err |-> err, results |-> results, files |-> files]

\* The same document is compiled a second time, by a new process.
Rerun ==
    /\ pc \in {"done", "error"}
    /\ run = 1
    /\ run' = 2
    /\ first' = <<Outcome>>
    /\ pc' = "extract"
    /\ err' = ""
    /\ i' = 1
    /\ printed' = <<>>
    /\ resources' = <<>>
    /\ k' = 1
    /\ returned' = <<>>
    /\ modules' = <<>>
    /\ m' = 1
    /\ c' = 1
    /\ classes' = <<>>
    /\ imports' = {}
    /\ results' = <<>>
    /\ files' = <<>>
    /\ UNCHANGED doc

Next ==
    \/ ExtractSkip
    \/ ExtractDrop
    \/ ExtractYield
    \/ ExtractFail
    \/ CompileBucket
    \/ GetClasses
    \/ GetClassesFail

Spec == Init /\ [][Next]_vars

NextTwice == Next \/ Rerun

\* Two runs over one document.
SpecTwice == Init /\ [][NextTwice]_vars

(***************************************************************************)
(* Properties.                                                             *)
(***************************************************************************)

\* The buckets compile_one has been called on, with what it returned.
Done == DOMAIN returned

\* The records of bucket n.
Elements(n) == Range(resources[n][2])

\* The records of bucket n whose path has no action capture.
Primaries(n) == {e \in Elements(n) : e.sub_action = None}

StrictlyAscending(l) ==
    \A a, b \in DOMAIN l : a < b => LexRank(l[a]) < LexRank(l[b])

\* C6: in every compiled resource the primary action list and the action
\* list of every SubAction have no duplicates and ascend strictly in
\* lexicographic order, also when a record's verbs repeat.
C6_ActionsSorted ==
    \A n \in Done :
        returned[n] /= None =>
            /\ StrictlyAscending(Val(returned[n]).actions)
            /\ \A x \in DOMAIN Val(returned[n]).sub_actions :
                   StrictlyAscending(Val(returned[n]).sub_actions[x].actions)

HasRepeat(l) == \E a, b \in DOMAIN l : a /= b /\ l[a] = l[b]

\* C6 witness: a resource compiled from a record with a repeated verb, with
\* several primary actions and a sub-action of several verbs.
C6_Witness ==
    \E n \in Done :
        /\ returned[n] /= None
        /\ \E e \in Primaries(n) : HasRepeat(e.methods)
        /\ Len(Val(returned[n]).actions) >= 3
        /\ \E x \in DOMAIN Val(returned[n]).sub_actions :
               Len(Val(returned[n]).sub_actions[x].actions) >= 2

\* C9: no record comes from a path matched with a watch segment, whatever
\* the path entry carries: once the entry is read, no bucket holds a record
\* of it.
C9_WatchExcluded ==
    \A x \in DOMAIN doc :
        (/\ x < i
         /\ RE_PATH(doc[x].path) /= None
         /\ Val(RE_PATH(doc[x].path)).watch /= None)
        => \A n \in DOMAIN resources : \A e \in Elements(n) : e.path /= doc[x].path

\* C9 witness: a watch path with verbs, an identity and tags has been read,
\* and another path of the document did give a record.
C9_Witness ==
    /\ pc = "compile"
    /\ resources /= <<>>
    /\ \E x \in DOMAIN doc :
         /\ RE_PATH(doc[x].path) /= None
         /\ Val(RE_PATH(doc[x].path)).watch /= None
         /\ ExtractDefi(doc[x].defi).methods /= <<>>
         /\ ExtractDefi(doc[x].defi).resource /= None
         /\ ExtractDefi(doc[x].defi).tags /= {}

\* C10: the namespaced flag of a compiled resource is true exactly when some
\* record of its bucket, sub-action records included, is namespace-scoped.
C10_NamespacedAny ==
    \A n \in Done :
        returned[n] /= None =>
            (Val(returned[n]).namespaced <=> \E e \in Elements(n) : e.namespaced)

\* C10 witness: a compiled resource is namespaced only because of a
\* sub-action record, which comes first in the bucket.
C10_Witness ==
    \E n \in Done :
        /\ returned[n] /= None
        /\ Val(returned[n]).namespaced
        /\ \A e \in Primaries(n) : ~e.namespaced
        /\ resources[n][2][1].namespaced

\* Bucket n names its resource: some record has an identity and no action
\* capture.
Identified(n) == \E e \in Primaries(n) : e.resource /= None

RECURSIVE CompileAll(_, _)
\* The loop of compile_resources over a list of buckets.
CompileAll(res, mods) ==
    IF res = <<>> THEN mods
    ELSE CompileAll(Tail(res), Compiled(mods, Head(res)))

\* The buckets among the first n that name their resource, in order.
RECURSIVE Kept(_)
Kept(n) ==
    IF n = 0 THEN <<>>
    ELSE IF Identified(n) THEN Append(Kept(n - 1), resources[n])
    ELSE Kept(n - 1)

\* Every class collected so far.
AllClasses ==
    UNION {Range(results[x][2]) : x \in DOMAIN results} \cup Range(classes)

\* C8: compile_one returns a compiled resource exactly for the buckets with a
\* record that has an identity and no sub-action; a bucket without one gives
\* no compiled resource and no class, and the modules are those the other
\* buckets alone would give.
C8_DroppedIdentity ==
    /\ \A n \in Done : returned[n] /= None <=> Identified(n)
    /\ modules = CompileAll(Kept(Len(returned)), <<>>)
    /\ \A cls \in AllClasses :
         \E n \in Done :
            /\ Identified(n)
            /\ cls.properties.plural = repr(resources[n][1].plural)

\* C8 witness: the run ended with classes although its first bucket, whose
\* records all lack an identity, was dropped.
C8_Witness ==
    /\ pc = "done"
    /\ results /= <<>>
    /\ Len(returned) >= 2
    /\ \A e \in Elements(1) : e.resource = None
    /\ returned[1] = None

\* The verbs of a set of records.
Verbs(recs) == UNION {Range(e.methods) : e \in recs}

\* C1: the primary actions of a compiled resource are the verbs of the
\* records without a sub-action whose scope is the resolved namespaced flag,
\* plus global_v for every verb v of the cluster-scoped records without a
\* sub-action when the flag is true.
C1_PrimaryActions ==
    \A n \in Done :
        returned[n] /= None =>
            Range(Val(returned[n]).actions)
              = Verbs({e \in Primaries(n) : e.namespaced = Val(returned[n]).namespaced})
                \cup {"global_" \o v :
                        v \in Verbs({e \in Primaries(n) :
                                       Val(returned[n]).namespaced /\ ~e.namespaced})}

\* The first record of a list with an identity and no action capture.
FirstIdentified(elements) ==
    elements[CHOOSE x \in DOMAIN elements :
                /\ elements[x].resource /= None /\ elements[x].sub_action = None
                /\ \A y \in 1..(x - 1) :
                      elements[y].resource = None \/ elements[y].sub_action /= None]

\* C2: the identity of a compiled resource is that of the first record of
\* the bucket with an identity and no sub-action; a later one does not
\* change it.
C2_FirstIdentity ==
    \A n \in Done :
        returned[n] /= None =>
            Val(returned[n]).resource = Val(FirstIdentified(resources[n][2]).resource)

\* The document of the scenario: the namespaced pods path with get -> list
\* and post, identity Pod and tag Pod, then /api/v1/pods with get -> list,
\* the same identity and no tag.
ScenarioDoc == <<Entry(PNsPods, DListPost), Entry(PPods, DListNoTag)>>

\* C3: the run over the scenario's document ends without error, with one
\* compiled resource for ("", v1, pods), namespaced, with the actions
\* global_list, list, post and no sub-action, and one class, Pod, whose base
\* class is NamespacedResourceG.
C3_Scenario ==
    (doc = ScenarioDoc /\ pc \in {"done", "error"}) =>
        /\ pc = "done"
        /\ Len(resources) = 1
        /\ resources[1][1] = ApiKey("", "v1", "pods")
        /\ returned[1] /= None
        /\ Val(returned[1]).namespaced
        /\ Val(returned[1]).actions = <<"global_list", "list", "post">>
        /\ Val(returned[1]).sub_actions = <<>>
        /\ Cardinality(AllClasses) = 1
        /\ \A cls \in AllClasses :
              cls.name = "Pod" /\ cls.classes[1] = "NamespacedResourceG"

\* The Compiled of module x that get_classes has been called on (the last
\* call may have raised).
Rendered(x) ==
    IF x < m THEN modules[x][2]
    ELSE IF x = m
    THEN SubSeq(modules[x][2], 1, IF err = "AttributeError" THEN c ELSE c - 1)
    ELSE <<>>

\* The classes collected for module x.
ClassesOf(x) ==
    IF x < m THEN results[x][2] ELSE IF x = m THEN classes ELSE <<>>

RECURSIVE SubPairs(_)
\* The <<Compiled, SubAction>> pairs of a list of Compiled, in order.
SubPairs(compileds) ==
    IF compileds = <<>> THEN <<>>
    ELSE [x \in DOMAIN Head(compileds).sub_actions |->
             <<Head(compileds), Head(compileds).sub_actions[x]>>]
         \o SubPairs(Tail(compileds))

IsSubDescriptor(cls) == cls.properties.parent /= None

IsMainDescriptor(cls) == cls.properties.parent = None

\* The class is the one the claim describes for the SubAction of the pair.
DescribesSub(cls, pair) ==
    /\ cls.name = pair[1].resource.kind \o capitalize(pair[2].name)
    /\ cls.classes[1] = IF pair[1].namespaced THEN "NamespacedSubResource"
                        ELSE "GlobalSubResource"
    /\ pair[2].resource /= None
    /\ cls.properties.resource = definition(Val(pair[2].resource))
    /\ cls.properties.parent = Some(definition(pair[1].resource))
    /\ cls.properties.plural = repr(pair[1].plural)
    /\ cls.properties.verbs = pair[2].actions
    /\ cls.properties.action = Some(repr(pair[2].name))

\* The table of the primary class names each sub-resource class.
NamesSubs(cls, compiled) ==
    Range(cls.actions)
      = {<<capitalize(compiled.sub_actions[x].name),
           compiled.resource.kind \o capitalize(compiled.sub_actions[x].name)>>
           : x \in DOMAIN compiled.sub_actions}

\* C4: for every compiled resource get_classes has been called on there is
\* one class per SubAction, named, based and filled as described, and the
\* table of every primary class names the classes of its sub-actions.
C4_SubClasses ==
    \A x \in DOMAIN modules :
        LET pairs == SubPairs(Rendered(x))
            subs  == SelectSeq(ClassesOf(x), IsSubDescriptor)
            mains == SelectSeq(ClassesOf(x), IsMainDescriptor)
        IN  /\ Len(subs) = Len(pairs)
            /\ \A y \in DOMAIN pairs : DescribesSub(subs[y], pairs[y])
            /\ \A y \in DOMAIN mains : NamesSubs(mains[y], Rendered(x)[y])

\* C5: the second run over a document ends as the first did: the same
\* modules, classes, action lists and imports.
C5_Deterministic ==
    (run = 2 /\ pc \in {"done", "error"}) => first = <<Outcome>>

\* The records of a list whose path has an action capture, in order.
Captured(elements) == SelectSeq(elements, LAMBDA e : e.sub_action /= None)

\* C7: every record with an action capture (an empty name included) gives
\* one SubAction with exactly its own verbs and adds no verb, prefixed or
\* not, to the primary actions; no SubAction takes a verb from the parent.
C7_SubIndependent ==
    \A n \in Done :
        returned[n] /= None =>
            LET subs == Val(returned[n]).sub_actions
                caps == Captured(resources[n][2])
            IN  /\ Len(subs) = Len(caps)
                /\ \A x \in DOMAIN subs :
                      /\ subs[x].name = Val(caps[x].sub_action)
                      /\ Range(subs[x].actions) = Range(caps[x].methods)
                /\ Range(Val(returned[n]).actions)
                     \subseteq Verbs(Primaries(n))
                               \cup {"global_" \o v : v \in Verbs(Primaries(n))}

RECURSIVE MainPos(_, _)
\* Where the primary class of the y-th Compiled of a list stands among the
\* classes of the list when each Compiled gives one class per SubAction and
\* then its primary class.
MainPos(compileds, y) ==
    IF y = 0 THEN 0
    ELSE MainPos(compileds, y - 1) + Len(compileds[y].sub_actions) + 1

\* The class is the primary class the claim describes for the Compiled.
IsPrimaryOf(cls, compiled) ==
    /\ IsMainDescriptor(cls)
    /\ cls.name = compiled.resource.kind
    /\ cls.properties.verbs = compiled.actions
    /\ cls.classes[1] = IF "global_list" \in Range(compiled.actions)
                        THEN "NamespacedResourceG"
                        ELSE IF compiled.namespaced THEN "NamespacedResource"
                        ELSE "GlobalResource"

\* C11: for every compiled resource get_classes has been called on there is
\* exactly one primary class, standing after the classes of the resource's
\* sub-actions, named by the kind, with the compiled primary actions as its
\* verbs and the base class NamespacedResourceG when global_list is among
\* them, else NamespacedResource when namespaced, else GlobalResource.
C11_PrimaryClass ==
    \A x \in DOMAIN modules :
        LET cs == Rendered(x)
            cl == ClassesOf(x)
        IN  /\ Len(SelectSeq(cl, IsMainDescriptor)) = Len(cs)
            /\ \A y \in DOMAIN cs :
                  /\ MainPos(cs, y) <= Len(cl)
                  /\ IsPrimaryOf(cl[MainPos(cs, y)], cs[y])

\* C12: a compiled resource without a response schema still gets its primary
\* class, with no model import, and the run is not ended by an exception.
C12_SchemaLess ==
    \A x \in DOMAIN modules :
        \A y \in DOMAIN Rendered(x) :
            Rendered(x)[y].model_schema = None =>
                /\ err = ""
                /\ \E cls \in Range(ClassesOf(x)) :
                      /\ IsMainDescriptor(cls)
                      /\ cls.name = Rendered(x)[y].resource.kind
                      /\ cls.model_import = None

\* The path entry a record was read from (the paths of a document are
\* distinct).
EntryOf(e) == doc[CHOOSE x \in DOMAIN doc : doc[x].path = e.path]

\* The HTTP-method entries of a path definition, the shared "parameters"
\* block left out.
MethodsOf(defi) == {it \in Range(defi) : it.method /= "parameters"}

\* The effective action of a method: the x-kubernetes-action override, else
\* the HTTP method.
EffectiveAction(it) == IF it.action /= None THEN Val(it.action) ELSE it.method

\* The name of a parameter entry, a reference being resolved in the shared
\* parameter definitions of the document.
ParamName(p) ==
    IF p.ref /= None THEN SharedParameters[Val(p.ref)[Len(Val(p.ref))]].name
    ELSE p.name

\* Some parameter of the definition, in a method's own list or in the shared
\* block, is named watch.
HasWatchParam(defi) ==
    \E it \in Range(defi) :
        /\ it.parameters /= None
        /\ \E n \in DOMAIN Val(it.parameters) : ParamName(Val(it.parameters)[n]) = "watch"

\* The action names the methods of a definition give, connect left out.
SupportedActions(defi) ==
    {EffectiveAction(it) : it \in {j \in MethodsOf(defi) : EffectiveAction(j) /= "connect"}}

SchemaOf(schema) ==
    IF schema.ref /= None THEN schema_name(Val(schema.ref))
    ELSE Schema(schema.type, None)

\* The first record of a list that has no action capture and whose verbs
\* hold get or post.
FirstShaped(elements) ==
    elements[CHOOSE x \in DOMAIN elements :
                /\ elements[x].sub_action = None
                /\ {"get", "post"} \cap Range(elements[x].methods) /= {}
                /\ \A y \in 1..(x - 1) :
                      \/ elements[y].sub_action /= None
                      \/ {"get", "post"} \cap Range(elements[y].methods) = {}]

\* C14: the response schema of a compiled resource, when set, is the
\* 200-response schema of a method whose effective action is get or post, of
\* the path of the first record of the bucket without a sub-action whose
\* verbs hold get or post; never that of another method of the path.
C14_ReadOrCreateSchema ==
    \A n \in Done :
        (returned[n] /= None /\ Val(returned[n]).model_schema /= None) =>
            \E it \in MethodsOf(EntryOf(FirstShaped(resources[n][2])).defi) :
                /\ EffectiveAction(it) \in {"get", "post"}
                /\ Val(Val(returned[n]).model_schema) = SchemaOf(it.schema)

\* C15: the verbs of a record hold watch exactly when a parameter named
\* watch stands in the parameter list of one of the path's methods or in the
\* path's shared block, a referenced entry being resolved in the shared
\* parameter definitions like an inline one, or when the effective action of
\* a method is watch itself.
C15_WatchParameter ==
    \A n \in DOMAIN resources : \A e \in Elements(n) :
        "watch" \in Range(e.methods)
          <=> \/ HasWatchParam(EntryOf(e).defi)
              \/ "watch" \in SupportedActions(EntryOf(e).defi)

\* The parameter is a reference to a shared definition named watch.
IsWatchRef(p) == p.ref /= None /\ ParamName(p) = "watch"

\* C15 witness: a record holds watch only through referenced entries: its
\* path has no inline parameter named watch and no method whose effective
\* action is watch.
C15_Witness ==
    /\ \E n \in DOMAIN resources : \E e \in Elements(n) :
          /\ "watch" \in Range(e.methods)
          /\ "watch" \notin SupportedActions(EntryOf(e).defi)
          /\ \A it \in Range(EntryOf(e).defi) :
                it.parameters /= None =>
                    \A x \in DOMAIN Val(it.parameters) :
                        ParamName(Val(it.parameters)[x]) = "watch"
                            => IsWatchRef(Val(it.parameters)[x])

\* The index in the document of the path a record was read from.
DocIndex(e) == CHOOSE x \in DOMAIN doc : doc[x].path = e.path

\* The Compiled values among what compile_one returned for the buckets seen
\* so far whose module is mod, in the order of the buckets.
CompiledIn(mod) ==
    LET sel == SelectSeq(returned, LAMBDA r : r /= None /\ Val(r).module = mod)
    IN  [y \in DOMAIN sel |-> Val(sel[y])]

\* The first bucket whose compiled resource went to module mod.
FirstBucket(mod) ==
    CHOOSE n \in Done :
        /\ returned[n] /= None /\ Val(returned[n]).module = mod
        /\ \A h \in 1..(n - 1) : returned[h] = None \/ Val(returned[h]).module /= mod

RECURSIVE OwnerPlurals(_)
\* The plural literal of each class a list of Compiled gives, in order: one
\* class per sub-action and one for the resource.
OwnerPlurals(compileds) ==
    IF compileds = <<>> THEN <<>>
    ELSE [y \in 1..(Len(Head(compileds).sub_actions) + 1) |-> repr(Head(compileds).plural)]
         \o OwnerPlurals(Tail(compileds))

\* C16: buckets follow the first-seen order of their ApiKeys in the path
\* stream; every compiled resource stands in exactly one module list, that
\* of its module, in the order of the buckets; modules follow the order of
\* their first bucket; the classes of a rendered module are those of its
\* resources, in that order; its imports are exactly the non-null model
\* imports of its classes.
C16_ModuleOrder ==
    /\ \A a, b \in DOMAIN resources :
          a < b => DocIndex(resources[a][2][1]) < DocIndex(resources[b][2][1])
    /\ \A n \in Done :
          returned[n] /= None =>
              Cardinality({x \in DOMAIN modules :
                              Val(returned[n]) \in Range(modules[x][2])}) = 1
    /\ \A x \in DOMAIN modules : modules[x][2] = CompiledIn(modules[x][1])
    /\ \A x, y \in DOMAIN modules :
          x < y => FirstBucket(modules[x][1]) < FirstBucket(modules[y][1])
    /\ \A x \in DOMAIN results :
          /\ results[x][1] = modules[x][1]
          /\ [y \in DOMAIN results[x][2] |-> results[x][2][y].properties.plural]
               = OwnerPlurals(modules[x][2])
          /\ files[x][1] = modules[x][1]
          /\ Range(files[x][2])
               = {Val(cls.model_import) \o " as m_" \o Val(cls.model_import) :
                    cls \in {z \in Range(results[x][2]) : z.model_import /= None}}

\* C16 witness: a finished run with two rendered modules, the first holding
\* the resources of the first and the third bucket, the second that of the
\* bucket between them, and different imports for the two modules.
C16_Witness ==
    /\ pc = "done"
    /\ Len(results) = 2
    /\ Len(modules[1][2]) = 2
    /\ returned[2] /= None
    /\ Val(returned[2]).module = modules[2][1]
    /\ files[1][2] /= <<>>
    /\ files[2][2] /= <<>>
    /\ files[1][2] /= files[2][2]

\* C17: whenever compile_one drops a bucket (no record with an identity and
\* no sub-action), a path of that bucket has been printed, also for a bucket
\* made only of sub-action records that carry an identity; the run goes on
\* with the other buckets.
C17_DroppedNotice ==
    /\ \A n \in Done :
          returned[n] = None =>
              \E e \in Elements(n) : e.path \in Range(printed)
    /\ (pc = "done" /\ resources /= <<>>) => Len(returned) = Len(resources)

\* The classes get_classes gave for the y-th Compiled of a list, taken from
\* the classes collected for the list.
ClassesFor(cl, compileds, y) ==
    SubSeq(cl, MainPos(compileds, y - 1) + 1, MainPos(compileds, y))

\* C18: the classes given for one compiled resource have pairwise distinct
\* names, and the table of its primary class has one entry per SubAction,
\* also when two records of the bucket carry the same sub-action name.
C18_DistinctNames ==
    \A x \in DOMAIN modules :
        LET cs == Rendered(x)
            cl == ClassesOf(x)
        IN  \A y \in DOMAIN cs :
                MainPos(cs, y) <= Len(cl) =>
                    LET own == ClassesFor(cl, cs, y)
                    IN  /\ \A a, b \in DOMAIN own : a /= b => own[a].name /= own[b].name
                        /\ Len(own[Len(own)].actions) = Len(cs[y].sub_actions)

\* C19: every SubAction of a compiled resource has an identity and a schema,
\* also when the methods of its record carry no group/version/kind triple
\* while a primary record of the bucket does.
C19_SubActionComplete ==
    \A n \in Done :
        returned[n] /= None =>
            \A x \in DOMAIN Val(returned[n]).sub_actions :
                /\ Val(returned[n]).sub_actions[x].resource /= None
                /\ Val(returned[n]).sub_actions[x].model_schema /= None

\* The prefixed names of the verbs extract can give.
GlobalNames ==
    {"global_" \o v : v \in {"connect", "delete", "get", "list", "post", "put", "watch"}}

\* The compiled resource of bucket n has a global_ action.
HasGlobal(n) == Range(Val(returned[n]).actions) \cap GlobalNames /= {}

\* The primary classes collected so far for the resource of bucket n.
PrimaryClassesOf(n) ==
    {cls \in AllClasses :
        IsMainDescriptor(cls) /\ cls.properties.plural = repr(resources[n][1].plural)}

\* C20 as stated: a global_ action is among the primary actions only if the
\* bucket holds a namespace-scoped record without a sub-action and a
\* cluster-scoped record without a sub-action; a resource whose records
\* without a sub-action are all cluster-scoped keeps its verbs unprefixed and
\* its primary class is a GlobalResource.
C20_GlobalBothScopes ==
    \A n \in Done :
        returned[n] /= None =>
            /\ HasGlobal(n) =>
                  /\ \E e \in Primaries(n) : e.namespaced
                  /\ \E e \in Primaries(n) : ~e.namespaced
            /\ (\A e \in Primaries(n) : ~e.namespaced) =>
                  /\ ~HasGlobal(n)
                  /\ \A cls \in PrimaryClassesOf(n) : cls.classes[1] = "GlobalResource"

\* C20 amended: a global_ action is among the primary actions only if some
\* record of the bucket, a sub-action record included, is namespace-scoped
\* and some cluster-scoped record is not turned into a SubAction (its
\* sub-action name is absent or empty); a resource none of whose records is
\* namespace-scoped keeps its verbs unprefixed and its primary class is a
\* GlobalResource.
C20_GlobalWhenNamespaced ==
    \A n \in Done :
        returned[n] /= None =>
            /\ HasGlobal(n) =>
                  /\ \E e \in Elements(n) : e.namespaced
                  /\ \E e \in Elements(n) : ~e.namespaced /\ ~TruthyStr(e.sub_action)
            /\ (\A e \in Elements(n) : ~e.namespaced) =>
                  /\ ~HasGlobal(n)
                  /\ \A cls \in PrimaryClassesOf(n) : cls.classes[1] = "GlobalResource"

\* C20 witness: a finished run gave a primary class for a resource with a
\* global_ action whose records without a sub-action are all cluster-scoped:
\* only a sub-action record is namespace-scoped.
C20_Witness ==
    /\ pc = "done"
    /\ \E n \in Done :
          /\ returned[n] /= None
          /\ HasGlobal(n)
          /\ \A e \in Primaries(n) : ~e.namespaced
          /\ \E e \in Elements(n) : e.namespaced /\ e.sub_action /= None
          /\ PrimaryClassesOf(n) /= {}
====
